---- MODULE Spec2Model ----
(***************************************************************************)
(* Seat-booking web form (src/app.py): a Flask application whose routes     *)
(* append booking rows to a spreadsheet ledger, read them back, clear      *)
(* them, and send one WhatsApp notification per appended row.              *)
(*                                                                         *)
(* Strings are sequences of one-character strings, so that str(), int(),   *)
(* split(), strip() and the digit regular expressions are computed, not    *)
(* assumed.  A JSON value is a record [t, s, n, l]: t is its Python type   *)
(* after request.get_json ("str", "int", "bool", "null", "list"), s its    *)
(* characters, n its number (True is 1 and False is 0, as in Python) and   *)
(* l its elements.                                                         *)
(***************************************************************************)
EXTENDS Integers, Sequences, FiniteSets, TLC

\* ------------------------------------------------------------ bounds
\* Longest names / mobiles / seats list handed to pair_rows_for_booking.
MaxLen == 3
\* Most bookings in one POST /submit body.
MaxBookings == 2
\* Most requests the sequential server handles in one behaviour.
MaxRequests == 3

\* ------------------------------------------------------------ strings
Digits == {"0", "1", "2", "3", "4", "5", "6", "7", "8", "9"}

DigitChars == <<"0", "1", "2", "3", "4", "5", "6", "7", "8", "9">>

\* The value of a decimal digit character.
DigitVal(c) == CHOOSE d \in 0..9 : DigitChars[d + 1] = c

\* int(x) for a non-empty run of decimal digits.
RECURSIVE StrToInt(_)
StrToInt(s) ==
  IF s = <<>> THEN 0
  ELSE 10 * StrToInt(SubSeq(s, 1, Len(s) - 1)) + DigitVal(s[Len(s)])

\* str(n) for a Python int.
RECURSIVE IntToStr(_)
IntToStr(n) ==
  IF n < 0 THEN <<"-">> \o IntToStr(0 - n)
  ELSE IF n < 10 THEN <<DigitChars[n + 1]>>
  ELSE IntToStr(n \div 10) \o <<DigitChars[(n % 10) + 1]>>

\* re.findall(r"\d+", s): the maximal digit runs of s, left to right.
RECURSIVE DigitRunsFrom(_, _, _)
DigitRunsFrom(s, i, cur) ==
  IF i > Len(s) THEN (IF cur = <<>> THEN <<>> ELSE <<cur>>)
  ELSE IF s[i] \in Digits THEN DigitRunsFrom(s, i + 1, Append(cur, s[i]))
  ELSE (IF cur = <<>> THEN <<>> ELSE <<cur>>) \o DigitRunsFrom(s, i + 1, <<>>)

DigitRuns(s) == DigitRunsFrom(s, 1, <<>>)

\* "".join(parts)
RECURSIVE Concat(_)
Concat(parts) ==
  IF parts = <<>> THEN <<>> ELSE Head(parts) \o Concat(Tail(parts))

\* s.split(","): the fragments between commas, empty ones kept.
RECURSIVE SplitFrom(_, _, _)
SplitFrom(s, i, cur) ==
  IF i > Len(s) THEN <<cur>>
  ELSE IF s[i] = "," THEN <<cur>> \o SplitFrom(s, i + 1, <<>>)
  ELSE SplitFrom(s, i + 1, Append(cur, s[i]))

SplitComma(s) == SplitFrom(s, 1, <<>>)

\* s.strip(): leading and trailing blanks removed.
RECURSIVE Strip(_)
Strip(s) ==
  IF s = <<>> THEN s
  ELSE IF Head(s) = " " THEN Strip(Tail(s))
  ELSE IF s[Len(s)] = " " THEN Strip(SubSeq(s, 1, Len(s) - 1))
  ELSE s

\* s.isdigit(): non-empty and decimal digits only.
IsDigitStr(s) == s # <<>> /\ \A i \in 1..Len(s) : s[i] \in Digits

HasComma(s) == \E i \in 1..Len(s) : s[i] = ","

\* sep.join(parts)
RECURSIVE Join(_, _)
Join(parts, sep) ==
  IF parts = <<>> THEN <<>>
  ELSE IF Len(parts) = 1 THEN parts[1]
  ELSE parts[1] \o sep \o Join(Tail(parts), sep)

\* [f(x) for x in xs]
MapSeq(xs, f(_)) == [i \in 1..Len(xs) |-> f(xs[i])]

\* ------------------------------------------------------------ JSON values
JStr(s) == [t |-> "str", s |-> s, n |-> 0, l |-> <<>>]
JInt(n) == [t |-> "int", s |-> <<>>, n |-> n, l |-> <<>>]
JBool(b) == [t |-> "bool", s |-> <<>>, n |-> IF b THEN 1 ELSE 0, l |-> <<>>]
JNull == [t |-> "null", s |-> <<>>, n |-> 0, l |-> <<>>]
JList(l) == [t |-> "list", s |-> <<>>, n |-> 0, l |-> l]

\* A seat as Python holds it: an int, or a bool (a subclass of int).
SeatInt(n) == [b |-> FALSE, n |-> n]
SeatBool(n) == [b |-> TRUE, n |-> n]

\* str(seat): the decimal digits of an int, "True" / "False" for a bool.
SeatStr(seat) ==
  IF seat.b
  THEN (IF seat.n = 1 THEN <<"T", "r", "u", "e">> ELSE <<"F", "a", "l", "s", "e">>)
  ELSE IntToStr(seat.n)

\* str(v) for a JSON scalar.
PyStr(v) ==
  CASE v.t = "str" -> v.s
    [] v.t = "int" -> IntToStr(v.n)
    [] v.t = "bool" -> SeatStr(SeatBool(v.n))
    [] v.t = "null" -> <<"N", "o", "n", "e">>
    [] OTHER -> <<"[", "]">>

\* Python truthiness of a JSON value.
Truthy(v) ==
  CASE v.t = "str" -> v.s # <<>>
    [] v.t = "int" -> v.n # 0
    [] v.t = "bool" -> v.n # 0
    [] v.t = "null" -> FALSE
    [] OTHER -> v.l # <<>>

\* ------------------------------------------------------------ helpers
extract_ints_from_string(s) == MapSeq(DigitRuns(s), StrToInt)

\* The seats one element of a seats list contributes.
SeatsOfItem(item) ==
  CASE item.t \in {"int", "bool"} ->
         <<IF item.t = "bool" THEN SeatBool(item.n) ELSE SeatInt(item.n)>>
    [] item.t = "str" -> MapSeq(extract_ints_from_string(item.s), SeatInt)
    [] OTHER -> <<>>

normalize_seats(seats) ==
  CASE seats.t = "list" -> Concat(MapSeq(seats.l, SeatsOfItem))
    [] seats.t = "str" -> MapSeq(extract_ints_from_string(seats.s), SeatInt)
    [] OTHER -> <<>>

only_digits(s) == Concat(DigitRuns(s))

NonEmpty(s) == s # <<>>

\* re.findall on a list element: a falsy element reads as "", a string is
\* searched, anything else raises TypeError.
MobileItemRaises(m) == m.t # "str" /\ Truthy(m)

MobileItemDigits(m) == IF m.t = "str" THEN only_digits(m.s) ELSE <<>>

CommaParts(s) ==
  IF HasComma(s) THEN MapSeq(SplitComma(s), Strip) ELSE <<Strip(s)>>

\* [err, v]: err when the normalisation raises, else the list v.
normalize_mobile_to_list(mobile) ==
  CASE mobile.t = "list" ->
         IF \E i \in 1..Len(mobile.l) : MobileItemRaises(mobile.l[i])
         THEN [err |-> TRUE, v |-> <<>>]
         ELSE [err |-> FALSE,
               v |-> SelectSeq(MapSeq(mobile.l, MobileItemDigits), NonEmpty)]
    [] mobile.t = "str" ->
         [err |-> FALSE,
          v |-> SelectSeq(MapSeq(CommaParts(mobile.s), only_digits), NonEmpty)]
    [] OTHER -> [err |-> FALSE, v |-> <<>>]

StrStripped(n) == Strip(PyStr(n))

normalize_names_to_list(name) ==
  CASE name.t = "list" -> SelectSeq(MapSeq(name.l, StrStripped), NonEmpty)
    [] name.t = "str" -> SelectSeq(CommaParts(name.s), NonEmpty)
    [] OTHER -> <<>>

\* One (user_code, name, mobile, seat) tuple of pair_rows_for_booking.
Row(uc, nm, mb, seat) == [uc |-> uc, nm |-> nm, mb |-> mb, seat |-> seat]

ErrMobile == "Invalid mobile number"
ErrPairing == "Cannot pair names/mobiles/seats"

\* The length every mobile must reach.
MinMobileLen == 10

\* A mobile of exactly ten digits taken for too short.
MobileTooShortInclusive(m) == Len(m) <= MinMobileLen

MobileTooShort(m) == Len(m) < MinMobileLen

\* The single name and mobile given one row that stands for all the seats.
BroadcastOnce(user_code, name, mobile, seats_ordered) ==
  <<Row(user_code, name, mobile, seats_ordered[1])>>

\* The single name and mobile repeated for every seat.
Broadcast(user_code, name, mobile, seats_ordered) ==
  [i \in 1..Len(seats_ordered) |-> Row(user_code, name, mobile, seats_ordered[i])]

\* [err, rows]: err is "" and rows the tuples, or err is the ValueError.
pair_rows_for_booking(user_code, names_list, mobiles_list, seats_ordered) ==
  LET n_names == Len(names_list)
      n_mobiles == Len(mobiles_list)
      n_seats == Len(seats_ordered)
  IN IF \E i \in 1..n_mobiles : MobileTooShort(mobiles_list[i])
     THEN [err |-> ErrMobile, rows |-> <<>>]
     ELSE IF n_names = n_seats /\ n_mobiles = n_seats
     THEN [err |-> "",
           rows |-> [i \in 1..n_seats |->
                      Row(user_code, names_list[i], mobiles_list[i], seats_ordered[i])]]
     ELSE IF n_names = 1 /\ n_mobiles = 1
     THEN [err |-> "",
           rows |-> Broadcast(user_code, names_list[1], mobiles_list[1], seats_ordered)]
     ELSE IF n_names = 1 /\ n_mobiles = n_seats
     THEN [err |-> "",
           rows |-> [i \in 1..n_seats |->
                      Row(user_code, names_list[1], mobiles_list[i], seats_ordered[i])]]
     ELSE IF n_mobiles = 1 /\ n_names = n_seats
     THEN [err |-> "",
           rows |-> [i \in 1..n_seats |->
                      Row(user_code, names_list[i], mobiles_list[1], seats_ordered[i])]]
     ELSE [err |-> ErrPairing, rows |-> <<>>]

\* ------------------------------------------------------------ state
VARIABLES
  ledger,       \* the worksheet: a sequence of rows, each a sequence of cells
  clear_token,  \* CLEAR_TOKEN, "" when unset
  creds,        \* whether the four Twilio settings are all present
  now,          \* the clock; it advances with every request received
  pc,           \* each worker's position in its handler
  req,          \* each worker's request: its route and X-CLEAR-TOKEN header
  loc,          \* each worker's local variables in submit()
  resp,         \* each worker's response
  log,          \* each worker's gateway and messaging calls, in call order
  notif,        \* how the request's notification attempts have ended so far
  confirmed,    \* seats confirmed by a 200 submit since the last clear
  prev,         \* the kind of the response to each worker's previous request
  pin,          \* arguments of a direct call of pair_rows_for_booking
  pout          \* its result

vars ==
  <<ledger, clear_token, creds, now, pc, req, loc, resp, log, notif, confirmed,
    prev, pin, pout>>

\* The server's workers; requests they handle at the same time interleave.
Workers == {"w1", "w2"}

\* The highest seat number of the venue.
SeatCount == 105

HeaderRow == <<<<"T", "i", "m", "e", "s", "t", "a", "m", "p">>, <<"U", "s", "e", "r", " ", "C", "o", "d", "e">>, <<"N", "a", "m", "e">>, <<"M", "o", "b", "i", "l", "e">>, <<"S", "e", "l", "e", "c", "t", "e", "d", " ", "S", "e", "a", "t", "s">>>>

ErrNotDict == "object has no attribute 'get'"
ErrType == "expected string or bytes-like object"
ErrGateway == "gateway error"

NoToken == [p |-> FALSE, v |-> <<>>]

NoResp ==
  [status |-> 0, ok |-> FALSE, kind |-> "none", err |-> "", text |-> <<>>,
   booked |-> <<>>]

NoLoc ==
  [bookings |-> <<>>, bi |-> 1, timestamp |-> <<>>, pending |-> <<>>,
   all_confirmed |-> <<>>]

NoReq == [route |-> "none", token |-> NoToken]

\* A booking object; a missing key holds the default booking.get gives it.
Booking(user_code, name, mobile, seats) ==
  [dict |-> TRUE, user_code |-> user_code, name |-> name, mobile |-> mobile,
   seats |-> seats]

\* An element of the body that is no JSON object.
Scalar ==
  [dict |-> FALSE, user_code |-> JStr(<<>>), name |-> JStr(<<>>),
   mobile |-> JStr(<<>>), seats |-> JList(<<>>)]

EmptyBooking == Booking(JStr(<<>>), JStr(<<>>), JStr(<<>>), JList(<<>>))

\* The bookings of a body: data["users"], a bare list, or the one object;
\* a falsy body reads as {}.
BookingsOf(data) ==
  CASE data.shape = "users" -> data.items
    [] data.shape = "list" ->
         IF data.items = <<>> THEN <<EmptyBooking>> ELSE data.items
    [] OTHER -> <<data.items[1]>>

\* ------------------------------------------------------------ submit, per booking
\* Seat 0 let through.
SeatOutOfRangeFromZero(s) == s.n < 0 \/ s.n > SeatCount

SeatOutOfRange(s) == s.n < 1 \/ s.n > SeatCount

\* A seat the ledger already holds turned away with the out-of-range ones.
SeatTaken(s) ==
  \/ SeatOutOfRange(s)
  \/ \E i \in 2..Len(ledger) : ledger[i][5] = SeatStr(s)

InvalidSeatsOrTaken(seats) == SelectSeq(seats, SeatTaken)

InvalidSeats(seats) == SelectSeq(seats, SeatOutOfRange)

\* f"{invalid}": the list's repr.
ListRepr(seats) == <<"[">> \o Join(MapSeq(seats, SeatStr), <<",", " ">>) \o <<"]">>

\* One pass of the loop body up to the rows to append: what it raises, what
\* it returns early, or the tuples of pair_rows_for_booking.
BookingStep(b) ==
  IF ~b.dict
  THEN [kind |-> "raise", err |-> ErrNotDict, invalid |-> <<>>, rows |-> <<>>]
  ELSE LET user_code == Strip(PyStr(b.user_code))
           names == normalize_names_to_list(b.name)
           mobiles == normalize_mobile_to_list(b.mobile)
           seats == normalize_seats(b.seats)
       IN IF mobiles.err
          THEN [kind |-> "raise", err |-> ErrType, invalid |-> <<>>, rows |-> <<>>]
          ELSE IF names = <<>> \/ mobiles.v = <<>> \/ seats = <<>>
          THEN [kind |-> "required", err |-> "", invalid |-> <<>>, rows |-> <<>>]
          ELSE IF InvalidSeats(seats) # <<>>
          THEN [kind |-> "invalid", err |-> "", invalid |-> InvalidSeats(seats),
                rows |-> <<>>]
          ELSE LET p == pair_rows_for_booking(user_code, names, mobiles.v, seats)
               IN IF p.err # ""
                  THEN [kind |-> "raise", err |-> p.err, invalid |-> <<>>,
                        rows |-> <<>>]
                  ELSE [kind |-> "rows", err |-> "", invalid |-> <<>>,
                        rows |-> p.rows]

\* The cells of the row submit() appends for one tuple.
RowCells(timestamp, row) == <<timestamp, row.uc, row.nm, row.mb, SeatStr(row.seat)>>

\* The message's list of confirmed seats.
FinalText(all_confirmed) == Join(MapSeq(all_confirmed, SeatStr), <<",", " ">>)

Resp200(all_confirmed) ==
  [NoResp EXCEPT !.status = 200, !.ok = TRUE, !.kind = "confirmed",
                 !.text = FinalText(all_confirmed)]

Resp400Required == [NoResp EXCEPT !.status = 400, !.kind = "required"]

Resp400Invalid(invalid) ==
  [NoResp EXCEPT !.status = 400, !.kind = "invalid_seats", !.text = ListRepr(invalid)]

\* The except clause of submit(): 500 and "Failed: <e>".
Resp500Failed(e) == [NoResp EXCEPT !.status = 500, !.kind = "failed", !.err = e]

\* An exception that leaves the view function: the framework's 500 page.
Resp500Unhandled(e) == [NoResp EXCEPT !.status = 500, !.kind = "unhandled", !.err = e]

\* ------------------------------------------------------------ notification
WaPrefix == <<"w", "h", "a", "t", "s", "a", "p", "p", ":", "+">>

\* [warn, to]
format_wa_to(number_str) ==
  LET digits == only_digits(number_str)
  IN IF Len(digits) = 12 /\ SubSeq(digits, 1, 2) = <<"9", "1">>
     THEN [warn |-> FALSE, to |-> WaPrefix \o digits]
     ELSE IF Len(digits) = 10
     THEN [warn |-> FALSE, to |-> WaPrefix \o <<"9", "1">> \o digits]
     ELSE [warn |-> TRUE, to |-> WaPrefix \o digits]

\* How a call of send_whatsapp_template_concert can end.
SendOutcomes == IF creds THEN {"sent", "raised"} ELSE {"nocreds"}

\* The messaging client's exception let through.
send_whatsapp_reraises(outcome) == outcome = "raised"

\* Whether the call raises into submit(): its except clause returns None.
send_whatsapp_raises(outcome) == FALSE

\* The call's arguments (to_number, name, seat) and, once the credentials
\* are found, the destination its payload carries.
SendCall(row) ==
  <<row.mb, row.nm, SeatStr(row.seat)>>
    \o (IF creds THEN <<format_wa_to(row.mb).to>> ELSE <<>>)

NotifAfter(before, outcome) ==
  LET o == IF outcome = "sent" THEN "sent" ELSE "failed"
  IN IF before \in {"none", o} THEN o ELSE "mixed"

\* ------------------------------------------------------------ booked seats
\* ws.col_values(5)[1:]
SeatColumn(rows) == [i \in 1..(Len(rows) - 1) |-> rows[i + 1][5]]

IntOfStripped(s) == StrToInt(Strip(s))

StrippedIsDigit(s) == IsDigitStr(Strip(s))

CellSeats(v) == MapSeq(SelectSeq(SplitComma(v), StrippedIsDigit), IntOfStripped)

BookedFrom(rows) == Concat(MapSeq(SeatColumn(rows), CellSeats))

\* ------------------------------------------------------------ requests
Mobile1 == <<"9", "8", "7", "6", "5", "4", "3", "2", "1", "0">>
Mobile2 == <<"9", "9", "8", "8", "7", "7", "6", "6", "5", "5">>

\* The specification's end-to-end booking: two names, two mobiles, two seats.
BkAsha ==
  Booking(JStr(<<"A", "1">>), JStr(<<"A", "s", "h", "a", ",", "R", "a", "v", "i">>), JStr(<<"9", "8", "7", "6", "5", "4", "3", "2", "1", "0", ",", "9", "9", "8", "8", "7", "7", "6", "6", "5", "5">>),
          JList(<<JInt(10), JInt(11)>>))

\* One seat, given as an int.
BkSeven == Booking(JStr(<<>>), JStr(<<"A">>), JStr(Mobile1), JList(<<JInt(7)>>))

\* One seat, given as the JSON literal true.
BkFlag == Booking(JStr(<<>>), JStr(<<"A">>), JStr(Mobile1), JList(<<JBool(TRUE)>>))

\* Seats 106 and 0 beside a valid one.
BkFar ==
  Booking(JStr(<<>>), JStr(<<"A">>), JStr(Mobile1),
          JList(<<JInt(10), JInt(106), JInt(0)>>))

\* A five-digit mobile.
BkShort == Booking(JStr(<<>>), JStr(<<"A">>), JStr(<<"1", "2", "3", "4", "5">>), JList(<<JInt(5)>>))

\* Three names, one mobile, two seats in one string.
BkMismatch == Booking(JStr(<<>>), JStr(<<"A", ",", "B", ",", "C">>), JStr(Mobile1), JStr(<<"5", " ", "6">>))

\* Padded fields, a formatted mobile, seats as a comma-joined string.
BkText ==
  Booking(JStr(<<" ", "B", "2", " ">>), JStr(<<" ", "A", "s", "h", "a", " ">>), JStr(<<"+", "9", "1", " ", "9", "8", "7", "6", "5", "-", "4", "3", "2", "1", "0">>),
          JStr(<<"1", "2", ",", "4", "5">>))

\* Lists: a name that is a number, an eleven-digit and a null mobile, a seat
\* that is a string.
BkLists ==
  Booking(JInt(3), JList(<<JStr(<<" ", "R", "a", "v", "i">>), JInt(7)>>),
          JList(<<JStr(<<"0", "9", "9", "8", "8", "7", " ", "7", "6", "6", "5", "5">>), JNull>>),
          JList(<<JStr(<<"1", "2">>), JInt(13), JNull>>))

\* A seat outside the venue and nothing else.
BkBare == Booking(JStr(<<>>), JStr(<<>>), JStr(<<>>), JList(<<JInt(106)>>))

\* A mobile given as a number inside a list.
BkNumber ==
  Booking(JStr(<<>>), JStr(<<"A">>), JList(<<JInt(987654321)>>), JList(<<JInt(5)>>))

SampleBookings ==
  {BkAsha, BkFlag, BkFar, EmptyBooking, BkShort, BkMismatch, BkText, BkLists,
   BkBare, BkNumber, Scalar}

SeqsUpTo(S, n) == UNION {[1..k -> S] : k \in 0..n}

\* The bodies of POST /submit that one request is drawn from.
Bodies ==
  {[shape |-> "users", items |-> s] : s \in SeqsUpTo(SampleBookings, MaxBookings)}
  \cup {[shape |-> "list", items |-> s] : s \in SeqsUpTo(SampleBookings, 1)}
  \cup {[shape |-> "object", items |-> <<b>>] : b \in SampleBookings}

\* The bodies the sequential server and the concurrent workers are sent.
SmallBodies ==
  {[shape |-> "object", items |-> <<b>>] : b \in {BkAsha, BkFlag, BkFar}}

ConcBodies ==
  {[shape |-> "object", items |-> <<b>>] : b \in {BkSeven, BkAsha}}

\* The X-CLEAR-TOKEN headers a request may carry: none, the secret, another.
Secret == <<"k">>

Tokens ==
  {NoToken, [p |-> TRUE, v |-> Secret], [p |-> TRUE, v |-> <<"x">>]}

LegacyRow(seats) == <<<<"0">>, <<>>, <<"O", "l", "d">>, Mobile2, seats>>

\* The worksheet before the first request: new, headed, or holding old rows.
InitLedgers ==
  {<<>>, <<HeaderRow>>,
   <<HeaderRow, LegacyRow(<<"5">>), LegacyRow(<<"7", ",", "8">>), LegacyRow(<<>>),
     LegacyRow(<<" ", "9", " ", ",", "x", "2">>)>>}

NoPin == [user_code |-> <<>>, names |-> <<>>, mobiles |-> <<>>, seats |-> <<>>]

NoPout == [done |-> FALSE, err |-> "", rows |-> <<>>]

InitServer ==
  /\ pc = [w \in Workers |-> "idle"]
  /\ req = [w \in Workers |-> NoReq]
  /\ loc = [w \in Workers |-> NoLoc]
  /\ resp = [w \in Workers |-> NoResp]
  /\ log = [w \in Workers |-> <<>>]
  /\ notif = [w \in Workers |-> "none"]
  /\ prev = [w \in Workers |-> "none"]
  /\ now = 0
  /\ confirmed = {}

Init ==
  /\ InitServer
  /\ ledger \in InitLedgers
  /\ clear_token \in {<<>>, Secret}
  /\ creds \in BOOLEAN
  /\ pin = NoPin
  /\ pout = NoPout

\* ------------------------------------------------------------ handlers
Event(op, row) == [op |-> op, row |-> row]

Idle(w) == pc[w] \in {"idle", "done"}

Begin(w, route, token, bookings, next, r) ==
  /\ now' = now + 1
  /\ req' = [req EXCEPT ![w] = [route |-> route, token |-> token]]
  /\ loc' = [loc EXCEPT ![w] = [NoLoc EXCEPT !.bookings = bookings]]
  /\ resp' = [resp EXCEPT ![w] = r]
  /\ log' = [log EXCEPT ![w] = <<>>]
  /\ notif' = [notif EXCEPT ![w] = "none"]
  /\ prev' = [prev EXCEPT ![w] = resp[w].kind]
  /\ pc' = [pc EXCEPT ![w] = next]

\* submit(): the body is read, then get_sheet() is called.
StartSubmit(w, data) ==
  /\ Idle(w)
  /\ Begin(w, "submit", NoToken, BookingsOf(data), "get_sheet", NoResp)
  /\ UNCHANGED <<ledger, clear_token, creds, confirmed, pin, pout>>

\* booked_seats()
StartBooked(w) ==
  /\ Idle(w)
  /\ Begin(w, "booked", NoToken, <<>>, "get_sheet", NoResp)
  /\ UNCHANGED <<ledger, clear_token, creds, confirmed, pin, pout>>

RespUnauthorized == [NoResp EXCEPT !.status = 401, !.kind = "unauthorized"]

\* A request without the header let through.
TokenRejectedWhenGiven(token) ==
  clear_token # <<>> /\ token.p /\ token.v # clear_token

\* CLEAR_TOKEN and request.headers.get("X-CLEAR-TOKEN") != CLEAR_TOKEN
TokenRejected(token) ==
  clear_token # <<>> /\ ~(token.p /\ token.v = clear_token)

\* clear_sheet_route(): the token check, then clear_google_sheet_values().
StartClear(w, token) ==
  /\ Idle(w)
  /\ IF TokenRejected(token)
     THEN Begin(w, "clear", token, <<>>, "done", RespUnauthorized)
     ELSE Begin(w, "clear", token, <<>>, "get_sheet", NoResp)
  /\ UNCHANGED <<ledger, clear_token, creds, confirmed, pin, pout>>

\* What the route answers when get_sheet() raises.
SheetFailure(route) ==
  CASE route = "submit" -> Resp500Unhandled(ErrGateway)
    [] route = "booked" ->
         [NoResp EXCEPT !.status = 200, !.kind = "booked_error", !.err = ErrGateway]
    [] OTHER ->
         [NoResp EXCEPT !.status = 200, !.kind = "clear_failed", !.err = ErrGateway]

Fail(w, r, e) ==
  /\ resp' = [resp EXCEPT ![w] = r]
  /\ log' = [log EXCEPT ![w] = Append(@, e)]
  /\ pc' = [pc EXCEPT ![w] = "done"]

\* Where the route continues once get_sheet() has returned.
AfterSheet(route) ==
  CASE route = "submit" -> "booking"
    [] route = "booked" -> "col_values"
    [] OTHER -> "batch_clear"

\* timestamp = datetime.now().strftime(...), read once per submit.
Stamp(w) ==
  IF req[w].route = "submit"
  THEN [loc EXCEPT ![w].timestamp = IntToStr(now)]
  ELSE loc

\* get_sheet(): the sheet is opened and its values are read.
GetSheetRead(w) ==
  /\ pc[w] = "get_sheet"
  /\ \/ /\ ledger # <<>>
        /\ pc' = [pc EXCEPT ![w] = AfterSheet(req[w].route)]
        /\ loc' = Stamp(w)
        /\ log' = [log EXCEPT ![w] = Append(@, Event("read", <<>>))]
        /\ UNCHANGED resp
     \/ /\ ledger = <<>>
        /\ pc' = [pc EXCEPT ![w] = "gs_header"]
        /\ log' = [log EXCEPT ![w] = Append(@, Event("read", <<>>))]
        /\ UNCHANGED <<loc, resp>>
     \/ /\ Fail(w, SheetFailure(req[w].route), Event("read_failed", <<>>))
        /\ UNCHANGED loc
  /\ UNCHANGED <<ledger, clear_token, creds, now, req, notif, confirmed, prev, pin, pout>>

\* get_sheet(): the values were empty, the header row is appended.
GetSheetHeader(w) ==
  /\ pc[w] = "gs_header"
  /\ \/ /\ ledger' = Append(ledger, HeaderRow)
        /\ pc' = [pc EXCEPT ![w] = AfterSheet(req[w].route)]
        /\ loc' = Stamp(w)
        /\ log' = [log EXCEPT ![w] = Append(@, Event("header", HeaderRow))]
        /\ UNCHANGED resp
     \/ /\ Fail(w, SheetFailure(req[w].route), Event("header_failed", <<>>))
        /\ UNCHANGED <<ledger, loc>>
  /\ UNCHANGED <<clear_token, creds, now, req, notif, confirmed, prev, pin, pout>>

Finish(w, r) ==
  /\ resp' = [resp EXCEPT ![w] = r]
  /\ pc' = [pc EXCEPT ![w] = "done"]

\* The rows the request appended taken back before the error is returned.
EarlyReturnRollback(w, r) ==
  /\ Finish(w, r)
  /\ ledger' = SubSeq(ledger, 1, Len(ledger) - Len(loc[w].all_confirmed))
  /\ UNCHANGED loc

\* submit(): a return from inside the loop, or its except clause; nothing
\* is undone.
EarlyReturn(w, r) == Finish(w, r) /\ UNCHANGED <<ledger, loc>>

SeatNumbers(seats) == {seats[i].n : i \in 1..Len(seats)}

\* submit(): the head of the for loop and the body up to the rows to append.
NextBooking(w) ==
  /\ pc[w] = "booking"
  /\ LET l == loc[w]
     IN IF l.bi > Len(l.bookings)
        THEN /\ Finish(w, Resp200(l.all_confirmed))
             /\ confirmed' = confirmed \cup SeatNumbers(l.all_confirmed)
             /\ UNCHANGED <<ledger, loc>>
        ELSE LET b == BookingStep(l.bookings[l.bi])
             IN /\ UNCHANGED confirmed
                /\ CASE b.kind = "raise" -> EarlyReturn(w, Resp500Failed(b.err))
                     [] b.kind = "required" -> EarlyReturn(w, Resp400Required)
                     [] b.kind = "invalid" -> EarlyReturn(w, Resp400Invalid(b.invalid))
                     [] OTHER ->
                          /\ loc' = [loc EXCEPT ![w].pending = b.rows]
                          /\ pc' = [pc EXCEPT ![w] = "append"]
                          /\ UNCHANGED <<ledger, resp>>
  /\ UNCHANGED <<clear_token, creds, now, req, log, notif, prev, pin, pout>>

\* submit(): ws.append_row for the next tuple.
AppendRow(w) ==
  /\ pc[w] = "append"
  /\ LET row == Head(loc[w].pending)
         cells == RowCells(loc[w].timestamp, row)
     IN \/ /\ ledger' = Append(ledger, cells)
           /\ loc' = [loc EXCEPT ![w].all_confirmed = Append(@, row.seat)]
           /\ log' = [log EXCEPT ![w] = Append(@, Event("append", cells))]
           /\ pc' = [pc EXCEPT ![w] = "notify"]
           /\ UNCHANGED resp
        \/ /\ Fail(w, Resp500Failed(ErrGateway), Event("append_failed", cells))
           /\ UNCHANGED <<ledger, loc>>
  /\ UNCHANGED <<clear_token, creds, now, req, notif, confirmed, prev, pin, pout>>

\* submit(): send_whatsapp_template_concert for the tuple just appended.
Notify(w) ==
  /\ pc[w] = "notify"
  /\ \E outcome \in SendOutcomes :
       LET row == Head(loc[w].pending)
           rest == Tail(loc[w].pending)
       IN /\ log' = [log EXCEPT ![w] = Append(@, Event("notify", SendCall(row)))]
          /\ notif' = [notif EXCEPT ![w] = NotifAfter(@, outcome)]
          /\ IF send_whatsapp_raises(outcome)
             THEN Finish(w, Resp500Failed(ErrGateway)) /\ UNCHANGED loc
             ELSE /\ loc' = [loc EXCEPT ![w].pending = rest,
                                        ![w].bi = IF rest = <<>> THEN @ + 1 ELSE @]
                  /\ pc' = [pc EXCEPT ![w] = IF rest = <<>> THEN "booking" ELSE "append"]
                  /\ UNCHANGED resp
  /\ UNCHANGED <<ledger, clear_token, creds, now, req, confirmed, prev, pin, pout>>

RespBooked(booked) == [NoResp EXCEPT !.status = 200, !.kind = "booked", !.booked = booked]

\* booked_seats(): the seat column is read and parsed.
ColValues(w) ==
  /\ pc[w] = "col_values"
  /\ \/ /\ resp' = [resp EXCEPT ![w] = RespBooked(BookedFrom(ledger))]
        /\ log' = [log EXCEPT ![w] = Append(@, Event("col_values", <<>>))]
        /\ pc' = [pc EXCEPT ![w] = "done"]
     \/ Fail(w, SheetFailure("booked"), Event("col_values_failed", <<>>))
  /\ UNCHANGED <<ledger, clear_token, creds, now, req, loc, notif, confirmed, prev, pin, pout>>

RespCleared == [NoResp EXCEPT !.status = 200, !.ok = TRUE, !.kind = "cleared"]

\* What ws.batch_clear(["A2:ZZZ"]) leaves of the worksheet.
Cleared(rows) == SubSeq(rows, 1, 1)

\* clear_google_sheet_values(): every row below the first is cleared.
BatchClear(w) ==
  /\ pc[w] = "batch_clear"
  /\ \/ /\ ledger' = Cleared(ledger)
        /\ confirmed' = {}
        /\ resp' = [resp EXCEPT ![w] = RespCleared]
        /\ log' = [log EXCEPT ![w] = Append(@, Event("batch_clear", <<>>))]
        /\ pc' = [pc EXCEPT ![w] = "done"]
     \/ /\ Fail(w, SheetFailure("clear"), Event("batch_clear_failed", <<>>))
        /\ UNCHANGED <<ledger, confirmed>>
  /\ UNCHANGED <<clear_token, creds, now, req, loc, notif, prev, pin, pout>>

\* The steps of submit() under way.
SubmitStep(w) ==
  \/ GetSheetRead(w)
  \/ GetSheetHeader(w)
  \/ NextBooking(w)
  \/ AppendRow(w)
  \/ Notify(w)

\* The steps of any handler under way.
Step(w) ==
  \/ SubmitStep(w)
  \/ ColValues(w)
  \/ BatchClear(w)

\* ------------------------------------------------------------ specifications
\* One worker, one request after the other, every route.
ReceiveSubmit(w) == now < MaxRequests /\ \E data \in SmallBodies : StartSubmit(w, data)

ReceiveBooked(w) == now < MaxRequests /\ StartBooked(w)

ReceiveClear(w) == now < MaxRequests /\ \E token \in Tokens : StartClear(w, token)

Next ==
  \/ ReceiveSubmit("w1")
  \/ ReceiveBooked("w1")
  \/ ReceiveClear("w1")
  \/ Step("w1")

Spec == Init /\ [][Next]_vars

\* One POST /submit, its body drawn from Bodies.
ReceiveOne(w) == now = 0 /\ \E data \in Bodies : StartSubmit(w, data)

NextSubmit == ReceiveOne("w1") \/ SubmitStep("w1")

SpecSubmit == Init /\ [][NextSubmit]_vars

\* Two POST /submit handled at the same time, one per worker.
ReceiveConc(w) == pc[w] = "idle" /\ \E data \in ConcBodies : StartSubmit(w, data)

NextConc == \E w \in Workers : ReceiveConc(w) \/ SubmitStep(w)

SpecConc == Init /\ [][NextConc]_vars

\* A direct call of pair_rows_for_booking on lists of up to MaxLen elements.
PairNames == {<<"a">>, <<"b">>}

PairMobiles == {Mobile1, Mobile2, <<"1", "2", "3", "4", "5">>}

PairSeats == {SeatInt(1), SeatInt(2)}

InitPair ==
  /\ InitServer
  /\ ledger = <<>>
  /\ clear_token = <<>>
  /\ creds = FALSE
  /\ pin \in [user_code : {<<"A", "1">>},
              names : SeqsUpTo(PairNames, MaxLen),
              mobiles : SeqsUpTo(PairMobiles, MaxLen),
              seats : SeqsUpTo(PairSeats, MaxLen)]
  /\ pout = NoPout

PairCall ==
  /\ ~pout.done
  /\ LET p == pair_rows_for_booking(pin.user_code, pin.names, pin.mobiles, pin.seats)
     IN pout' = [done |-> TRUE, err |-> p.err, rows |-> p.rows]
  /\ UNCHANGED <<ledger, clear_token, creds, now, pc, req, loc, resp, log, notif,
                 confirmed, prev, pin>>

NextPair == PairCall

SpecPair == InitPair /\ [][NextPair]_vars

\* ------------------------------------------------------------ claims
\* What the request under way has appended below the header, in order.
IsAppend(e) == e.op = "append"

EventRow(e) == e.row

Appended(w) == MapSeq(SelectSeq(log[w], IsAppend), EventRow)

FailedOps == {"read_failed", "header_failed", "append_failed", "col_values_failed",
              "batch_clear_failed"}

\* No gateway call of the request under way has failed.
GatewayHeld(w) == \A i \in 1..Len(log[w]) : log[w][i].op \notin FailedOps

Done(w, route) == pc[w] = "done" /\ req[w].route = route

\* The rows of the result pair the names and mobiles with the seats index-wise,
\* or repeat the first name (oneName) or the first mobile (oneMobile).
PairedAs(oneName, oneMobile) ==
  /\ pout.err = ""
  /\ Len(pout.rows) = Len(pin.seats)
  /\ \A i \in 1..Len(pin.seats) :
       /\ pout.rows[i].uc = pin.user_code
       /\ pout.rows[i].seat = pin.seats[i]
       /\ pout.rows[i].nm = pin.names[IF oneName THEN 1 ELSE i]
       /\ pout.rows[i].mb = pin.mobiles[IF oneMobile THEN 1 ELSE i]

\* C1: for names (n1), mobiles (n2) and seats (n3 >= 1), pair_rows_for_booking
\* fails with the invalid-mobile error and no rows when a mobile has fewer than
\* 10 characters; otherwise the first matching rule of (1) n1 = n3 and n2 = n3,
\* index-wise, (2) n1 = 1 and n2 = 1, both repeated, (3) n1 = 1 and n2 = n3,
\* name repeated, (4) n2 = 1 and n1 = n3, mobile repeated, gives n3 rows, the
\* i-th with the user_code and the i-th seat; with no rule it fails with the
\* invalid-pairing error.
C1_PairingTable ==
  (pout.done /\ Len(pin.seats) >= 1) =>
    LET n1 == Len(pin.names)
        n2 == Len(pin.mobiles)
        n3 == Len(pin.seats)
    IN IF \E i \in 1..n2 : Len(pin.mobiles[i]) < 10
       THEN pout.err = ErrMobile /\ pout.rows = <<>>
       ELSE IF n1 = n3 /\ n2 = n3 THEN PairedAs(FALSE, FALSE)
       ELSE IF n1 = 1 /\ n2 = 1 THEN PairedAs(TRUE, TRUE)
       ELSE IF n1 = 1 /\ n2 = n3 THEN PairedAs(TRUE, FALSE)
       ELSE IF n2 = 1 /\ n1 = n3 THEN PairedAs(FALSE, TRUE)
       ELSE pout.err = ErrPairing /\ pout.rows = <<>>

\* One name repeated over three seats, each with its own mobile.
C1_Witness ==
  /\ pout.done
  /\ Len(pin.names) = 1 /\ Len(pin.mobiles) = 3 /\ Len(pin.seats) = 3
  /\ pin.mobiles[1] # pin.mobiles[3]
  /\ pin.seats[1] # pin.seats[2]
  /\ Len(pout.rows) = 3

\* The worker of the sequential specifications.
W1 == "w1"

FarSeat(s) == s.n < 1 \/ s.n > 105

FarSeats(b) == SelectSeq(normalize_seats(b.seats), FarSeat)

\* The booking passes every check of the loop body and yields rows.
Passes(b) == BookingStep(b).kind = "rows"

CellsOfW1(row) == RowCells(loc[W1].timestamp, row)

RowsOfBooking(b) == MapSeq(BookingStep(b).rows, CellsOfW1)

\* The rows of the bookings before the k-th, in booking and seat order.
RowsBefore(k) ==
  Concat([j \in 1..(k - 1) |-> RowsOfBooking(loc[W1].bookings[j])])

\* The k-th booking is the first that does not pass.
FirstFailure(k) ==
  /\ \A j \in 1..(k - 1) : Passes(loc[W1].bookings[j])
  /\ ~Passes(loc[W1].bookings[k])

\* The booking has names and mobiles and a seat outside [1,105].
FailsOnSeats(b) ==
  /\ b.dict
  /\ normalize_names_to_list(b.name) # <<>>
  /\ ~normalize_mobile_to_list(b.mobile).err
  /\ normalize_mobile_to_list(b.mobile).v # <<>>
  /\ FarSeats(b) # <<>>

\* No seat of the booking was sent as a JSON boolean.
PlainSeats(b) ==
  \A j \in 1..Len(normalize_seats(b.seats)) : ~normalize_seats(b.seats)[j].b

\* C2 as claimed: a POST /submit in which a booking has a seat outside
\* [1,105] is answered 400 with exactly the out-of-range seats listed, and
\* appends nothing.  Read in the claim's favour: every ledger call succeeds
\* and every booking either passes all checks or has names, mobiles and such
\* a seat, and every seat was sent as a number or a string of digits.
C2_Original ==
  (/\ Done(W1, "submit")
   /\ GatewayHeld(W1)
   /\ \A i \in 1..Len(loc[W1].bookings) : PlainSeats(loc[W1].bookings[i])
   /\ \A i \in 1..Len(loc[W1].bookings) :
        Passes(loc[W1].bookings[i]) \/ FailsOnSeats(loc[W1].bookings[i])
   /\ \E i \in 1..Len(loc[W1].bookings) : FailsOnSeats(loc[W1].bookings[i]))
  => /\ resp[W1].status = 400
     /\ resp[W1].kind = "invalid_seats"
     /\ \E i \in 1..Len(loc[W1].bookings) :
          /\ FarSeats(loc[W1].bookings[i]) # <<>>
          /\ resp[W1].text = ListRepr(FarSeats(loc[W1].bookings[i]))
     /\ Appended(W1) = <<>>

\* C2 as amended: when every ledger call succeeds and the first booking that
\* does not pass is one with names, mobiles and a seat outside [1,105], the
\* answer is 400 listing exactly that booking's out-of-range seats, and the
\* rows the request appended are exactly those of the bookings before it.
C2_FirstFailureOnSeats ==
  (Done(W1, "submit") /\ GatewayHeld(W1)) =>
    \A k \in 1..Len(loc[W1].bookings) :
      (FirstFailure(k) /\ FailsOnSeats(loc[W1].bookings[k])) =>
        /\ resp[W1].status = 400
        /\ resp[W1].kind = "invalid_seats"
        /\ resp[W1].text = ListRepr(FarSeats(loc[W1].bookings[k]))
        /\ Appended(W1) = RowsBefore(k)

\* Seats 106 and 0 refused in the second booking, after the first booking's
\* two rows were appended.
C2_Witness ==
  /\ Done(W1, "submit")
  /\ loc[W1].bookings = <<BkAsha, BkFar>>
  /\ resp[W1].status = 400
  /\ resp[W1].text = <<"[", "1", "0", "6", ",", " ", "0", "]">>
  /\ Len(Appended(W1)) = 2

\* C3 as claimed: a ledger call that fails while POST /submit is handled ends
\* the request, without retry, with 500 and the JSON body "Failed: <error>".
C3_Original ==
  (Done(W1, "submit") /\ ~GatewayHeld(W1)) =>
    /\ resp[W1].status = 500
    /\ resp[W1].kind = "failed"
    /\ log[W1][Len(log[W1])].op \in FailedOps
    /\ \A i \in 1..(Len(log[W1]) - 1) : log[W1][i].op \notin FailedOps

\* C4: whatever the outcome of a notification attempt, the step that makes it
\* leaves the ledger, the response and the confirmed seats as they are and
\* goes on with the next row or booking, so rows, status and message do not
\* depend on it.
C4_NotificationNeverDecides ==
  [][pc[W1] = "notify" =>
       /\ ledger' = ledger
       /\ resp' = resp
       /\ loc'[W1].all_confirmed = loc[W1].all_confirmed
       /\ loc'[W1].bookings = loc[W1].bookings
       /\ loc'[W1].pending = Tail(loc[W1].pending)
       /\ pc'[W1] = IF Len(loc[W1].pending) = 1 THEN "booking" ELSE "append"
       /\ loc'[W1].bi = IF Len(loc[W1].pending) = 1 THEN loc[W1].bi + 1 ELSE loc[W1].bi]_vars

\* Both rows of a booking confirmed with 200 though every notification failed
\* in the messaging call.
C4_Witness ==
  /\ Done(W1, "submit")
  /\ creds
  /\ notif[W1] = "failed"
  /\ resp[W1].status = 200
  /\ Len(Appended(W1)) = 2

SeatsOfBooking(b) == normalize_seats(b.seats)

IsCall(e) == e.op \in {"append", "notify", "append_failed"}

\* C5: a POST /submit answered 200 has appended one row per seat of every
\* booking, in booking and seat order, has made one notification attempt per
\* row, after that row's append and before the next, and its message lists
\* the seats of those rows in order, joined by ", ".
C5_RowsThenNotify ==
  (Done(W1, "submit") /\ resp[W1].status = 200) =>
    LET seats == Concat(MapSeq(loc[W1].bookings, SeatsOfBooking))
        rows == Appended(W1)
        calls == SelectSeq(log[W1], IsCall)
    IN /\ Len(rows) = Len(seats)
       /\ \A i \in 1..Len(rows) : rows[i][5] = SeatStr(seats[i])
       /\ Len(calls) = 2 * Len(rows)
       /\ \A i \in 1..Len(rows) :
            /\ calls[2 * i - 1].op = "append"
            /\ calls[2 * i - 1].row = rows[i]
            /\ calls[2 * i].op = "notify"
            /\ calls[2 * i].row[1] = rows[i][4]
            /\ calls[2 * i].row[2] = rows[i][3]
            /\ calls[2 * i].row[3] = rows[i][5]
       /\ resp[W1].kind = "confirmed"
       /\ resp[W1].text = Join([i \in 1..Len(rows) |-> rows[i][5]], <<",", " ">>)

\* Two bookings, four seats: 10 and 11 index-wise, 12 and 45 for one name.
C5_Witness ==
  /\ Done(W1, "submit")
  /\ loc[W1].bookings = <<BkAsha, BkText>>
  /\ resp[W1].status = 200
  /\ resp[W1].text = <<"1", "0", ",", " ", "1", "1", ",", " ", "1", "2", ",", " ", "4", "5">>
  /\ Len(Appended(W1)) = 4

\* The rows of the ledger, below the first, whose seat cell is `cell`.
RowsWithSeat(cell) == {i \in 2..Len(ledger) : ledger[i][5] = cell}

Confirmers(n) ==
  {w \in Workers : /\ Done(w, "submit")
                   /\ resp[w].status = 200
                   /\ n \in SeatNumbers(loc[w].all_confirmed)}

\* C6: no seat-uniqueness check: whatever the ledger holds and however two
\* POST /submit interleave, a well-formed submission whose ledger calls
\* succeed is appended and answered 200, so the ledger holds at least one row
\* for a seat per request that confirmed it.
C6_NoUniqueness ==
  /\ \A w \in Workers :
       (Done(w, "submit") /\ GatewayHeld(w)) =>
         /\ resp[w].status = 200
         /\ Len(Appended(w)) = Len(loc[w].all_confirmed)
         /\ Len(Appended(w)) >= 1
  /\ \A n \in {7, 10, 11} :
       Cardinality(RowsWithSeat(IntToStr(n))) >= Cardinality(Confirmers(n))

\* Seat 7, already booked in an old row, confirmed to both workers: the
\* ledger now lists it three times.
C6_Witness ==
  /\ \A w \in Workers :
       /\ Done(w, "submit")
       /\ resp[w].status = 200
       /\ loc[w].all_confirmed = <<SeatInt(7)>>
  /\ Cardinality(RowsWithSeat(<<"7">>)) = 2
  /\ Len(ledger) = 7
  /\ Cardinality({i \in 1..Len(BookedFrom(ledger)) : BookedFrom(ledger)[i] = 7}) = 3

\* C7 as claimed: every row POST /submit appends has five cells, a non-empty
\* name, a mobile of at least 10 digits and nothing else, and a seat cell that
\* is the decimal string of one integer in [1,105].
C7_Original ==
  \A i \in 1..Len(Appended(W1)) :
    LET r == Appended(W1)[i]
    IN /\ Len(r) = 5
       /\ r[3] # <<>>
       /\ IsDigitStr(r[4])
       /\ Len(r[4]) >= 10
       /\ IsDigitStr(r[5])
       /\ StrToInt(r[5]) \in 1..105

\* C8: no rollback: when the k-th booking is the first that fails a check or
\* its pairing (the ledger calls before it succeeding), the rows of bookings
\* 1..k-1 are the rows the request appended and they end the ledger, nothing
\* of booking k or later is appended, and the 400 or 500 response names no
\* appended row.
C8_NoRollback ==
  (Done(W1, "submit") /\ GatewayHeld(W1)) =>
    \A k \in 1..Len(loc[W1].bookings) :
      FirstFailure(k) =>
        LET rows == Appended(W1)
        IN /\ rows = RowsBefore(k)
           /\ Len(ledger) >= Len(rows)
           /\ SubSeq(ledger, Len(ledger) - Len(rows) + 1, Len(ledger)) = rows
           /\ resp[W1].status \in {400, 500}
           /\ ~resp[W1].ok
           /\ resp[W1].kind \in {"required", "invalid_seats", "failed"}
           /\ resp[W1].text =
                IF resp[W1].kind = "invalid_seats"
                THEN ListRepr(FarSeats(loc[W1].bookings[k]))
                ELSE <<>>

\* The second booking cannot be paired; the first booking's two rows stay.
C8_Witness ==
  /\ Done(W1, "submit")
  /\ loc[W1].bookings = <<BkAsha, BkMismatch>>
  /\ resp[W1].status = 500
  /\ resp[W1].err = ErrPairing
  /\ Len(ledger) >= 3
  /\ ledger[Len(ledger)][5] = <<"1", "1">>

\* The request carries the configured secret, or none is configured.
Authorized(w) ==
  clear_token = <<>> \/ (req[w].token.p /\ req[w].token.v = clear_token)

StillThere(old, new) == Len(new) >= Len(old) /\ SubSeq(new, 1, Len(old)) = old

C9_Responses ==
  /\ (Done(W1, "clear") /\ ~Authorized(W1)) =>
       resp[W1].status = 401 /\ log[W1] = <<>>
  /\ (Done(W1, "clear") /\ resp[W1].kind = "cleared") =>
       Authorized(W1) /\ Len(ledger) = 1 /\ BookedFrom(ledger) = <<>>
  /\ (Done(W1, "booked") /\ prev[W1] = "cleared" /\ resp[W1].kind = "booked") =>
       resp[W1].booked = <<>>

C9_Removal ==
  ~StillThere(ledger, ledger') =>
    /\ pc[W1] = "batch_clear"
    /\ req[W1].route = "clear"
    /\ Authorized(W1)
    /\ ledger' = <<ledger[1]>>

\* C9: rows leave the ledger only in the clear of a POST /clear-sheet that
\* passed the token check; with a secret configured, a request whose header is
\* absent or different is answered 401 without any ledger call; a clear that
\* succeeds leaves the first row alone, and the GET /booked-seats that follows
\* it returns an empty list.
C9_ClearOnlyWithToken == []C9_Responses /\ [][C9_Removal]_vars

\* With a secret configured, old rows cleared by a request carrying it and
\* the following GET /booked-seats answered with an empty list.
C9_Witness ==
  /\ clear_token = Secret
  /\ Done(W1, "booked")
  /\ prev[W1] = "cleared"
  /\ resp[W1].kind = "booked"
  /\ resp[W1].booked = <<>>

\* C10 as claimed: GET /booked-seats always answers 200; when the read
\* succeeds, booked is the integers parsed from the seat cells below the
\* header, in row order, and holds every seat confirmed by a 200 submit since
\* the last clear; when it fails, booked is empty and the error is given.
C10_Original ==
  Done(W1, "booked") =>
    /\ resp[W1].status = 200
    /\ IF GatewayHeld(W1)
       THEN /\ resp[W1].kind = "booked"
            /\ resp[W1].booked = BookedFrom(ledger)
            /\ \A n \in confirmed :
                 \E i \in 1..Len(resp[W1].booked) : resp[W1].booked[i] = n
       ELSE /\ resp[W1].kind = "booked_error"
            /\ resp[W1].booked = <<>>
            /\ resp[W1].err # ""
====
